---- MODULE Spec2Model ----
(***************************************************************************)
(* Model of app.py of the data measurements tool: module start-up (logging *)
(* set-up), load_or_prepare, load_or_prepare_widgets, show_column,         *)
(* display_or_compute_data_measures and main.  The statistics cache object *)
(* (dataset_statistics.DatasetStatisticsCacheClass), the widget library    *)
(* (streamlit_utils), email_validator and the compute server are           *)
(* collaborators; what they return or raise is an input of the actions.    *)
(***************************************************************************)
EXTENDS Integers, Sequences, FiniteSets, TLC

VARIABLES pc, handlers, disk, appWrites, collabWrites, presets, tolerant,
          lp, lw, compare_mode, show_embeddings, sel, loads, shows, mainTrace

vars == <<pc, handlers, disk, appWrites, collabWrites, presets, tolerant,
          lp, lw, compare_mode, show_embeddings, sel, loads, shows, mainTrace>>

\* ------------------------------------------------------------------ bounds
\* Largest number of load_or_prepare_* calls that raise within one
\* load_or_prepare_widgets call made by main (direct calls of the two
\* loaders explore every subset).
MaxFails == 1

\* ------------------------------------------------------------- constants
\* paths, as sequences of components
CACHE_DIR == <<"cache_dir">>
LOG_DIR == <<"log_files">>
LOG_FILE == <<"log_files", "app.log">>

NoCall == [none |-> TRUE]
NoRaise == "none"

\* The two dataset selections the sidebar can return (dataset_args), and the
\* display configs returned with them (ds_configs).
DS1 == [dset_name |-> "hate_speech18", dset_config |-> "default",
        split_name |-> "train", text_field |-> "text", label_field |-> "label"]
DS2 == [dset_name |-> "glue", dset_config |-> "sst2",
        split_name |-> "validation", text_field |-> "sentence", label_field |-> "label"]
DatasetArgs == {DS1, DS2}
sidebar_selection(ds, column_id) ==
    [dataset_args |-> ds, ds_configs |-> [configs_of |-> ds.dset_name]]

\* Directory of the cache of one dataset configuration inside CACHE_DIR.
DsCacheDir(ds_args) == CACHE_DIR \o <<ds_args.dset_name, ds_args.dset_config, ds_args.split_name>>

DiskPaths == {LOG_DIR, LOG_FILE, CACHE_DIR} \cup {DsCacheDir(d) : d \in DatasetArgs}
\* a file or directory exists only inside an existing directory
DiskOk(d) == /\ (LOG_FILE \in d => LOG_DIR \in d)
             /\ \A a \in DatasetArgs : DsCacheDir(a) \in d => CACHE_DIR \in d

\* ------------------------------------------------------ the cache object
\* Names of the load_or_prepare_* methods.
LoadNames == {"dataset", "dset_peek", "labels", "text_lengths", "text_duplicates",
              "vocab", "general_stats", "embeddings", "npmi", "zipf"}

\* DatasetStatisticsCacheClass(CACHE_DIR, **ds_args, use_cache=use_cache)
DatasetStatisticsCacheClass(cache_dir, ds_args, use_cache) ==
    [cache_dir |-> cache_dir, args |-> ds_args, use_cache |-> use_cache,
     deployment |-> FALSE, loaded |-> {}]

\* The object with its .complete attribute as the cache object reports it
\* when the attribute is read.
WithComplete(dstats, complete) ==
    [f \in DOMAIN dstats \cup {"complete"} |->
        IF f = "complete" THEN complete ELSE dstats[f]]

set_deployment(dstats, b) == [dstats EXCEPT !.deployment = b]

\* check_cache_dir(): whether the cache directory of this configuration exists
check_cache_dir(dstats, d) == DsCacheDir(dstats.args) \in d

\* What a successful load_or_prepare_* leaves on disk: nothing when deployed
\* ("Don't recalculate; we're live"), the configuration's cache otherwise.
CacheWrites(dstats, loaded) ==
    IF dstats.deployment \/ loaded = {} THEN {} ELSE {DsCacheDir(dstats.args)}

\* --------------------------------------------------- sequences of loads
Step(name, guarded) == [name |-> name, guarded |-> guarded]

\* load_or_prepare: only the npmi load sits in a try/except
LoadOrPrepareSteps(show_emb) ==
    <<Step("dataset", FALSE), Step("labels", FALSE), Step("text_lengths", FALSE),
      Step("text_duplicates", FALSE), Step("vocab", FALSE), Step("general_stats", FALSE)>>
    \o (IF show_emb THEN <<Step("embeddings", FALSE)>> ELSE <<>>)
    \o <<Step("npmi", TRUE), Step("zipf", FALSE)>>

\* load_or_prepare_widgets: every load sits in its own try/except
WidgetStepsUnguardedNpmi(show_emb) ==
    <<Step("dataset", TRUE), Step("dset_peek", TRUE), Step("general_stats", TRUE),
      Step("labels", TRUE), Step("text_lengths", TRUE)>>
    \o (IF show_emb THEN <<Step("embeddings", TRUE)>> ELSE <<>>)
    \o <<Step("text_duplicates", TRUE), Step("npmi", FALSE), Step("zipf", TRUE)>>

WidgetStepsPeekFirst(show_emb) ==
    <<Step("dset_peek", TRUE), Step("dataset", TRUE), Step("general_stats", TRUE),
      Step("labels", TRUE), Step("text_lengths", TRUE)>>
    \o (IF show_emb THEN <<Step("embeddings", TRUE)>> ELSE <<>>)
    \o <<Step("text_duplicates", TRUE), Step("npmi", TRUE), Step("zipf", TRUE)>>

WidgetSteps(show_emb) ==
    <<Step("dataset", TRUE), Step("dset_peek", TRUE), Step("general_stats", TRUE),
      Step("labels", TRUE), Step("text_lengths", TRUE)>>
    \o (IF show_emb THEN <<Step("embeddings", TRUE)>> ELSE <<>>)
    \o <<Step("text_duplicates", TRUE), Step("npmi", TRUE), Step("zipf", TRUE)>>

\* Statement-by-statement execution of a sequence of loads: a call that raises
\* inside try/except is logged and execution goes on; a call that raises
\* outside one ends the function with the exception.
RECURSIVE RunSteps(_, _, _)
RunSteps(steps, raises, acc) ==
    IF steps = <<>> THEN acc
    ELSE LET s == Head(steps)
             called == [acc EXCEPT !.calls = Append(@, s.name)]
         IN IF s.name \in raises
            THEN IF s.guarded
                 THEN RunSteps(Tail(steps), raises,
                               [called EXCEPT !.caught = @ \cup {s.name}])
                 ELSE [called EXCEPT !.raised = s.name]
            ELSE RunSteps(Tail(steps), raises,
                          [called EXCEPT !.loaded = @ \cup {s.name}])

NoRun == [calls |-> <<>>, caught |-> {}, loaded |-> {}, raised |-> NoRaise]

\* load_or_prepare(ds_args, show_embeddings, use_cache)
load_or_prepare(ds_args, show_emb, use_cache, raises, d) ==
    LET made == ~(CACHE_DIR \in d)
        dstats == DatasetStatisticsCacheClass(CACHE_DIR, ds_args, use_cache)
        run == RunSteps(LoadOrPrepareSteps(show_emb), raises, NoRun)
    IN [fn |-> "load_or_prepare", show_embeddings |-> show_emb,
        calls |-> <<"__init__">> \o run.calls,
        caught |-> run.caught, raised |-> run.raised,
        dstats |-> [dstats EXCEPT !.loaded = run.loaded],
        cache_dir_exists |-> TRUE,
        returned |-> run.raised = NoRaise,
        app_writes |-> (IF made THEN {CACHE_DIR} ELSE {}) \cup {LOG_FILE},
        collab_writes |-> CacheWrites(dstats, run.loaded)]

\* What load_or_prepare_widgets itself writes: log records ("Using cache",
\* "Missing a cache for ..."), which the file handler appends to the log file.
WidgetsAppWritesMkdir(use_cache, caught, d) ==
    (IF use_cache \/ caught # {} THEN {LOG_FILE} ELSE {}) \cup ({CACHE_DIR} \ d)

WidgetsAppWrites(use_cache, caught, d) ==
    IF use_cache \/ caught # {} THEN {LOG_FILE} ELSE {}

\* load_or_prepare_widgets(ds_args, show_embeddings, use_cache)
load_or_prepare_widgets(ds_args, show_emb, use_cache, raises, d) ==
    LET dstats == set_deployment(
                     DatasetStatisticsCacheClass(CACHE_DIR, ds_args, use_cache), TRUE)
        cache_dir_exists == check_cache_dir(dstats, d)
        run == IF cache_dir_exists
               THEN RunSteps(WidgetSteps(show_emb), raises, NoRun)
               ELSE NoRun
    IN [fn |-> "load_or_prepare_widgets", show_embeddings |-> show_emb,
        calls |-> <<"__init__", "set_deployment", "check_cache_dir">> \o run.calls,
        caught |-> run.caught, raised |-> run.raised,
        dstats |-> [dstats EXCEPT !.loaded = run.loaded],
        cache_dir_exists |-> cache_dir_exists,
        returned |-> run.raised = NoRaise,
        app_writes |-> WidgetsAppWrites(use_cache, run.caught, d),
        collab_writes |-> CacheWrites(dstats, run.loaded)]

\* ------------------------------------------------------- email_validator
Emails == {"", "not-an-email", "Ann@EXAMPLE.org", "ann@example.org"}

\* validate_email(email): raises EmailNotValidError (valid |-> FALSE) or
\* returns an object whose .email is the normalized form (the domain part
\* in lower case).
validate_email(email) ==
    CASE email = "Ann@EXAMPLE.org" -> [valid |-> TRUE, email |-> "Ann@example.org"]
      [] email = "ann@example.org" -> [valid |-> TRUE, email |-> "ann@example.org"]
      [] OTHER -> [valid |-> FALSE, email |-> email]

\* -------------------------------------------------------- compute server
\* Outcome of requests.post: the text of the response, or an exception
\* (no connection).
ConnectionError == "ConnectionError"
PostOutcomes == {"success", "Success", "failure", "", ConnectionError}

\* dict({"email": email}, **dataset_args)
PayloadRawEmail(email, normalized, dataset_args) ==
    [k \in {"email"} \cup DOMAIN dataset_args |->
        IF k \in DOMAIN dataset_args THEN dataset_args[k] ELSE email]

Payload(email, normalized, dataset_args) ==
    [k \in {"email"} \cup DOMAIN dataset_args |->
        IF k \in DOMAIN dataset_args THEN dataset_args[k] ELSE normalized]

\* ------------------------------------------------------------ show_column
\* One line of show_column: the widget, the attributes of dstats the line
\* itself evaluates, and the loads whose results the widget displays.
Widget(name, reads, needs) == [name |-> name, reads |-> reads, needs |-> needs]

EmbeddingFields == {"fig_tree", "node_list", "embeddings"}

ShowColumnWidgetsAlwaysEmbeddings(show_emb) ==
    <<Widget("title", {"dset_name", "dset_config", "split_name", "text_field"}, {}),
      Widget("expander_header", {}, {"dset_peek"}),
      Widget("expander_general_stats", {}, {"general_stats"}),
      Widget("expander_label_distribution", {"fig_labels"}, {"labels"}),
      Widget("expander_text_lengths", {}, {"text_lengths"}),
      Widget("expander_text_duplicates", {}, {"text_duplicates"}),
      Widget("npmi_widget", {"npmi_stats"}, {"npmi"}),
      Widget("expander_zipf", {"z", "zipf_fig"}, {"zipf"}),
      Widget("expander_text_embeddings", {"text_dset"} \cup EmbeddingFields,
             {"dataset", "embeddings"})>>

ShowColumnWidgets(show_emb) ==
    <<Widget("title", {"dset_name", "dset_config", "split_name", "text_field"}, {}),
      Widget("expander_header", {}, {"dset_peek"}),
      Widget("expander_general_stats", {}, {"general_stats"}),
      Widget("expander_label_distribution", {"fig_labels"}, {"labels"}),
      Widget("expander_text_lengths", {}, {"text_lengths"}),
      Widget("expander_text_duplicates", {}, {"text_duplicates"}),
      Widget("npmi_widget", {"npmi_stats"}, {"npmi"}),
      Widget("expander_zipf", {"z", "zipf_fig"}, {"zipf"})>>
    \o (IF show_emb
        THEN <<Widget("expander_text_embeddings", {"text_dset"} \cup EmbeddingFields,
                      {"dataset", "embeddings"})>>
        ELSE <<>>)

\* Whether a line of show_column raises.  A widget whose loads all succeeded
\* is drawn.  Otherwise an attribute the line evaluates itself is missing
\* unless the constructor preset it (pre), and a widget handed a preset but
\* empty value raises unless the widget library tolerates that (tol).
WidgetRaises(w, dstats, pre, tol) ==
    /\ ~(w.needs \subseteq dstats.loaded)
    /\ \/ (w.reads # {} /\ ~pre)
       \/ ~tol

\* show_column runs its lines in order with no try/except: the first line
\* that raises ends it.
RECURSIVE RunWidgets(_, _, _, _, _)
RunWidgets(ws, dstats, pre, tol, acc) ==
    IF ws = <<>> THEN acc
    ELSE LET w == Head(ws)
             read == [acc EXCEPT !.reads = @ \cup w.reads]
         IN IF WidgetRaises(w, dstats, pre, tol)
            THEN [read EXCEPT !.raised = w.name]
            ELSE RunWidgets(Tail(ws), dstats, pre, tol,
                            [read EXCEPT !.screen = Append(@, w.name)])

NoShow == [screen |-> <<>>, reads |-> {}, raised |-> NoRaise]

show_column(dstats, ds_configs, show_emb, column_id, pre, tol) ==
    RunWidgets(ShowColumnWidgets(show_emb), dstats, pre, tol, NoShow)

\* ---------------------------------------- display_or_compute_data_measures
LATER_MSG == "Check back later for data measurement results!"
SUCCESS_MSG == "Computing metrics! An email will be sent to you."
PROBLEM_MSG == "Oh no, a problem happened while requesting the data measurements."
INVALID_MSG == "Oh no, that email doesn't seem valid!"

RemoveAll(s, gone) == SelectSeq(s, LAMBDA e : e \notin gone)

Shown(column_id) ==
    [column_id |-> column_id, show_column |-> FALSE, screen |-> <<>>,
     reads |-> {}, raised |-> NoRaise, posts |-> <<>>]

\* "if valid: if compute:" - the request is sent for a valid e-mail once the
\* button is pressed
ShouldPostWithoutButton(valid, compute) == valid

ShouldPost(valid, compute) == valid /\ compute

\* "if email != "" or compute:" - when the invalid e-mail is reported
ShowInvalidAlways(email, compute) == TRUE

ShowInvalid(email, compute) == email # "" \/ compute

\* The branch taken when no cache exists: the e-mail form.
ComputeForm(base, dataset_args, email_in, compute, outcome) ==
    LET v == validate_email(email_in)
        form == [base EXCEPT !.screen = <<"email_input", "compute_button">>]
    IN IF v.valid
       THEN IF ShouldPost(v.valid, compute)
            THEN LET sent == [form EXCEPT
                                !.posts = Append(@, Payload(email_in, v.email, dataset_args))]
                 IN IF outcome = ConnectionError
                    THEN [sent EXCEPT !.raised = ConnectionError]
                    ELSE [sent EXCEPT
                            !.screen = Append(RemoveAll(@, {"email_input", "compute_button"}),
                                              IF outcome = "success"
                                              THEN SUCCESS_MSG ELSE PROBLEM_MSG)]
            ELSE form
       ELSE IF ShowInvalid(email_in, compute)
            THEN [form EXCEPT !.screen = Append(@, INVALID_MSG)]
            ELSE form

display_ignoring_complete(cache_exists, dstats, show_emb, dataset_args, ds_configs, column_id, email_in, compute, outcome, pre, tol) ==
    LET base == Shown(column_id)
    IN IF cache_exists
       THEN LET sc == show_column(dstats, ds_configs, show_emb, column_id, pre, tol)
            IN [base EXCEPT !.show_column = TRUE, !.screen = sc.screen,
                            !.reads = sc.reads, !.raised = sc.raised]
       ELSE ComputeForm(base, dataset_args, email_in, compute, outcome)

display_or_compute_data_measures(cache_exists, dstats, show_emb, dataset_args, ds_configs, column_id, email_in, compute, outcome, pre, tol) ==
    LET base == Shown(column_id)
    IN IF cache_exists
       THEN IF dstats.complete
            THEN LET sc == show_column(dstats, ds_configs, show_emb, column_id, pre, tol)
                 IN [base EXCEPT !.show_column = TRUE, !.screen = sc.screen,
                                 !.reads = {"complete"} \cup sc.reads,
                                 !.raised = sc.raised]
            ELSE [base EXCEPT !.reads = {"complete"}, !.screen = <<LATER_MSG>>]
       ELSE ComputeForm(base, dataset_args, email_in, compute, outcome)

\* ------------------------------------------------------------------ state
Columns == {"", " A", " B"}
Nothing == [c \in Columns |-> NoCall]

\* every set of raising loads (direct calls) / at most MaxFails of them (main)
AnyRaises == SUBSET LoadNames
FewRaises == {r \in SUBSET (LoadNames \ {"vocab"}) : Cardinality(r) <= MaxFails}

Init ==
    /\ pc = <<"boot", "">>
    /\ handlers \in BOOLEAN
    /\ disk \in {d \in SUBSET DiskPaths : DiskOk(d)}
    /\ handlers => {LOG_DIR, LOG_FILE} \subseteq disk
    /\ appWrites = {}
    /\ collabWrites = {}
    /\ presets = FALSE
    /\ tolerant = FALSE
    /\ lp = NoCall
    /\ lw = NoCall
    /\ compare_mode = FALSE
    /\ show_embeddings = FALSE
    /\ sel = Nothing
    /\ loads = Nothing
    /\ shows = Nothing
    /\ mainTrace = <<>>

\* What the logging set-up creates: the log directory (mkdir, exist_ok) and
\* the log file (FileHandler opens it for appending).
LoggingSetup(d) == {LOG_DIR, LOG_FILE} \ d

\* Module body: .env, SERVER_URL, logger set-up when the logger has no
\* handlers yet, page config.
ModuleStartup ==
    /\ pc = <<"boot", "">>
    /\ pc' = <<"ready", "">>
    /\ IF ~handlers
       THEN /\ disk' = disk \cup LoggingSetup(disk)
            /\ appWrites' = LoggingSetup(disk)
            /\ handlers' = TRUE
       ELSE /\ appWrites' = {}
            /\ UNCHANGED <<disk, handlers>>
    /\ UNCHANGED <<collabWrites, presets, tolerant, lp, lw, compare_mode,
                   show_embeddings, sel, loads, shows, mainTrace>>

\* A direct call of load_or_prepare.
CallLoadOrPrepare ==
    /\ pc = <<"ready", "">>
    /\ \E ds \in DatasetArgs, emb \in BOOLEAN, use_cache \in BOOLEAN,
          raises \in AnyRaises :
          LET r == load_or_prepare(ds, emb, use_cache, raises, disk)
          IN /\ lp' = r
             /\ disk' = disk \cup r.app_writes \cup r.collab_writes
             /\ appWrites' = r.app_writes
             /\ collabWrites' = r.collab_writes
             /\ pc' = <<IF r.returned THEN "done" ELSE "raised", "load_or_prepare">>
    /\ UNCHANGED <<handlers, presets, tolerant, lw, compare_mode,
                   show_embeddings, sel, loads, shows, mainTrace>>

\* A direct call of load_or_prepare_widgets.
CallLoadOrPrepareWidgets ==
    /\ pc = <<"ready", "">>
    /\ \E ds \in DatasetArgs, emb \in BOOLEAN, use_cache \in BOOLEAN,
          raises \in AnyRaises :
          LET r == load_or_prepare_widgets(ds, emb, use_cache, raises, disk)
          IN /\ lw' = r
             /\ disk' = disk \cup r.app_writes \cup r.collab_writes
             /\ appWrites' = r.app_writes
             /\ collabWrites' = r.collab_writes
             /\ pc' = <<IF r.returned THEN "done" ELSE "raised", "load_or_prepare_widgets">>
    /\ UNCHANGED <<handlers, presets, tolerant, lp, compare_mode,
                   show_embeddings, sel, loads, shows, mainTrace>>

\* main up to the first load: the sidebar is read (comparison mode, show
\* text clusters, one selection per column) and the mode is logged.  How the
\* collaborators treat results that were never loaded is fixed for the run.
ColumnsOf(compare) == IF compare THEN {" A", " B"} ELSE {""}
FirstColumnB(compare) == IF compare THEN " B" ELSE ""

FirstColumn(compare) == IF compare THEN " A" ELSE ""

MainStart ==
    /\ pc = <<"ready", "">>
    /\ \E compare \in BOOLEAN, emb \in BOOLEAN, choice \in [Columns -> DatasetArgs] :
          /\ compare_mode' = compare
          /\ show_embeddings' = emb
          /\ sel' = [c \in Columns |->
                        IF c \in ColumnsOf(compare)
                        THEN sidebar_selection(choice[c], c) ELSE NoCall]
          /\ pc' = <<"load", FirstColumn(compare)>>
    /\ presets' \in BOOLEAN
    /\ tolerant' \in BOOLEAN
    /\ appWrites' = {LOG_FILE}
    /\ collabWrites' = {}
    /\ UNCHANGED <<handlers, disk, lp, lw, loads, shows, mainTrace>>

\* main: dstats, cache_exists = load_or_prepare_widgets(dataset_args,
\* show_embeddings, use_cache=use_cache) for the column at hand.  loads keeps
\* the pair of the column being processed: main never reads the pair of a
\* column again once that column is displayed.
MainLoad(c) ==
    /\ pc = <<"load", c>>
    /\ \E raises \in FewRaises :
          LET use_cache == TRUE
              r == load_or_prepare_widgets(sel[c].dataset_args, show_embeddings,
                                           use_cache, raises, disk)
          IN /\ loads' = [Nothing EXCEPT ![c] = r]
             /\ disk' = disk \cup r.app_writes \cup r.collab_writes
             /\ appWrites' = r.app_writes
             /\ collabWrites' = r.collab_writes
             /\ mainTrace' = Append(mainTrace,
                                [fn |-> "load_or_prepare_widgets",
                                 dataset_args |-> sel[c].dataset_args,
                                 show_embeddings |-> show_embeddings,
                                 use_cache |-> use_cache])
    /\ pc' = <<"display", c>>
    /\ UNCHANGED <<handlers, presets, tolerant, lp, lw, compare_mode,
                   show_embeddings, sel, shows>>

\* main: display_or_compute_data_measures(cache_exists, dstats, ...) for the
\* column at hand; an exception ends main.
NextColumn(c) == IF c = " A" THEN <<"load", " B">> ELSE <<"done", "main">>

MainDisplay(c) ==
    /\ pc = <<"display", c>>
    /\ \E complete \in BOOLEAN, email \in Emails, compute \in BOOLEAN,
          outcome \in PostOutcomes :
          LET cache_exists == loads[c].cache_dir_exists
              given == [cache_exists |-> cache_exists, complete |-> complete,
                        email |-> email, compute |-> compute, outcome |-> outcome]
              r == display_or_compute_data_measures(
                       cache_exists, WithComplete(loads[c].dstats, complete),
                       show_embeddings, sel[c].dataset_args, sel[c].ds_configs, c,
                       email, compute, outcome, presets, tolerant)
          IN \* .complete is read only with a cache, the form is on screen
             \* only without one, the server answers only when asked
             /\ ~cache_exists => ~complete
             /\ cache_exists => email = "" /\ ~compute
             /\ ~(validate_email(email).valid /\ compute) => outcome = "success"
             /\ shows' = [shows EXCEPT ![c] = [given |-> given, out |-> r]]
             /\ mainTrace' = Append(mainTrace,
                                [fn |-> "display_or_compute_data_measures",
                                 dataset_args |-> sel[c].dataset_args,
                                 ds_configs |-> sel[c].ds_configs,
                                 show_embeddings |-> show_embeddings,
                                 column_id |-> c])
             /\ pc' = IF r.raised = NoRaise THEN NextColumn(c)
                      ELSE <<"raised", "main">>
    /\ appWrites' = {}
    /\ collabWrites' = {}
    /\ UNCHANGED <<handlers, disk, presets, tolerant, lp, lw,
                   compare_mode, show_embeddings, sel, loads>>

Next ==
    \/ ModuleStartup
    \/ CallLoadOrPrepare
    \/ CallLoadOrPrepareWidgets
    \/ MainStart
    \/ \E c \in Columns : MainLoad(c)
    \/ \E c \in Columns : MainDisplay(c)

Spec == Init /\ [][Next]_vars

\* ============================================================ properties
Range(q) == {q[i] : i \in 1..Len(q)}

\* the results of load_or_prepare_widgets at hand (direct call, or a column of main)
WidgetRuns == {r \in {lw} \cup {loads[c] : c \in Columns} : r # NoCall}
\* the result of load_or_prepare at hand
PrepareRuns == {r \in {lp} : r # NoCall}
\* the columns displayed so far
Displayed == {c \in Columns : shows[c] # NoCall}
\* the columns whose load and display are both at hand
Processed == {c \in Displayed : loads[c] # NoCall}

\* the load_or_prepare_* calls each loader has in its body
WidgetLoadNames(emb) ==
    {"dataset", "dset_peek", "general_stats", "labels", "text_lengths",
     "text_duplicates", "npmi", "zipf"} \cup (IF emb THEN {"embeddings"} ELSE {})
PrepareLoadNames(emb) ==
    {"dataset", "labels", "text_lengths", "text_duplicates", "vocab",
     "general_stats", "npmi", "zipf"} \cup (IF emb THEN {"embeddings"} ELSE {})

AllLoadsMade(r, names) ==
    /\ r.returned
    /\ r.raised = NoRaise
    /\ names \subseteq Range(r.calls)
    /\ r.caught \cup r.dstats.loaded = names

\* C1 (as stated): in load_or_prepare and in load_or_prepare_widgets alike,
\* whichever load_or_prepare_* calls raise, every call of the sequence is
\* made and the function returns normally.
C1_AllIsolated ==
    /\ \A r \in WidgetRuns :
          r.cache_dir_exists => AllLoadsMade(r, WidgetLoadNames(r.show_embeddings))
    /\ \A r \in PrepareRuns : AllLoadsMade(r, PrepareLoadNames(r.show_embeddings))

\* C1 (amended): load_or_prepare_widgets isolates every load_or_prepare_*
\* call (all are made, the function returns); load_or_prepare isolates only
\* load_or_prepare_npmi: any other call that raises is the last call made and
\* its exception leaves the function.
C1_WidgetsIsolatedPrepareOnlyNpmi ==
    /\ \A r \in WidgetRuns :
          r.cache_dir_exists => AllLoadsMade(r, WidgetLoadNames(r.show_embeddings))
    /\ \A r \in PrepareRuns :
          /\ r.caught \subseteq {"npmi"}
          /\ r.raised = NoRaise => AllLoadsMade(r, PrepareLoadNames(r.show_embeddings))
          /\ r.raised # NoRaise =>
                /\ ~r.returned
                /\ r.raised # "npmi"
                /\ r.calls[Len(r.calls)] = r.raised
                /\ r.raised \notin r.dstats.loaded

C1_Witness ==
    /\ lw # NoCall
    /\ lw.returned
    /\ {"dataset", "labels", "npmi"} \subseteq lw.caught
    /\ "zipf" \in lw.dstats.loaded

\* The widget that displays the result of each load.
WidgetOf(load) ==
    CASE load = "dset_peek" -> "expander_header"
      [] load = "general_stats" -> "expander_general_stats"
      [] load = "labels" -> "expander_label_distribution"
      [] load = "text_lengths" -> "expander_text_lengths"
      [] load = "text_duplicates" -> "expander_text_duplicates"
      [] load = "npmi" -> "npmi_widget"
      [] load = "zipf" -> "expander_zipf"
      [] load = "embeddings" -> "expander_text_embeddings"
      [] OTHER -> "title"

C3_PostOnlyWithoutCache ==
    \A c \in Displayed :
       LET g == shows[c].given
           o == shows[c].out
       IN /\ Len(o.posts) <= 1
          /\ Len(o.posts) = 1 <=>
                (~g.cache_exists /\ validate_email(g.email).valid /\ g.compute)
          /\ g.cache_exists => o.posts = <<>>

C3_Witness ==
    \E c \in Displayed :
       /\ Len(shows[c].out.posts) = 1
       /\ ~shows[c].given.cache_exists
       /\ shows[c].out.raised = NoRaise

C5_OnlyCompleteCacheShown ==
    \A c \in Displayed :
       LET g == shows[c].given
           o == shows[c].out
       IN /\ o.show_column <=> (g.cache_exists /\ g.complete)
          /\ (g.cache_exists /\ ~g.complete) =>
                /\ o.screen = <<LATER_MSG>>
                /\ o.posts = <<>>
          /\ ~o.show_column => \A m \in LoadNames : WidgetOf(m) \notin Range(o.screen)

C5_Witness ==
    \E c \in Processed :
       /\ shows[c].given.cache_exists
       /\ ~shows[c].given.complete
       /\ loads[c].caught = {}
       /\ shows[c].out.screen = <<LATER_MSG>>

\* C6 (as stated): the code of the file itself creates or writes no
\* directory and no file.
C6_AppWritesNothing == appWrites = {}

\* C6 (amended): the file's own code writes the log directory and the log
\* file (created at module start-up, appended to by every warning) and, in
\* load_or_prepare only, creates CACHE_DIR when it is missing; every other
\* change on disk is made inside the cache object's methods.
C6_AppWritesLogsAndCacheDir ==
    [][/\ (disk' \ disk) \subseteq (appWrites' \cup collabWrites')
       /\ appWrites' \subseteq {LOG_DIR, LOG_FILE, CACHE_DIR}
       /\ LOG_DIR \in appWrites' => (pc = <<"boot", "">> /\ ~handlers)
       /\ CACHE_DIR \in appWrites' =>
             (pc'[2] = "load_or_prepare" /\ CACHE_DIR \notin disk)
       /\ collabWrites' # {} => pc'[2] = "load_or_prepare"]_vars

C6_Witness ==
    /\ pc[2] = "load_or_prepare"
    /\ CACHE_DIR \in appWrites
    /\ collabWrites # {}

\* C7: load_or_prepare_widgets constructs the cache object, calls
\* set_deployment(True), then check_cache_dir(), and only then the loads,
\* load_or_prepare_dataset first; when check_cache_dir() is false it makes no
\* load at all and returns (dstats, False).
C7_WidgetsCallOrder ==
    \A r \in WidgetRuns :
       /\ Len(r.calls) >= 3
       /\ SubSeq(r.calls, 1, 3) = <<"__init__", "set_deployment", "check_cache_dir">>
       /\ r.dstats.deployment
       /\ \A i \in 4..Len(r.calls) : r.calls[i] \in LoadNames
       /\ r.cache_dir_exists => (Len(r.calls) >= 4 /\ r.calls[4] = "dataset")
       /\ ~r.cache_dir_exists =>
             (Len(r.calls) = 3 /\ r.returned /\ r.dstats.loaded = {} /\ r.caught = {})

C7_Witness ==
    /\ lw # NoCall
    /\ lw.cache_dir_exists
    /\ lw.show_embeddings
    /\ "dataset" \in lw.caught
    /\ Len(lw.calls) = 12

EmbeddingsLoaded(r) == "embeddings" \in Range(r.calls)
EmbeddingsDrawn(c) == "expander_text_embeddings" \in Range(shows[c].out.screen)

\* C8 (as stated): load_or_prepare_embeddings is called by either loader,
\* and expander_text_embeddings is drawn, exactly when show_embeddings is
\* true; when it is false the embedding fields of dstats are never read.
C8_EmbeddingsIffRequested ==
    /\ \A r \in WidgetRuns \cup PrepareRuns : EmbeddingsLoaded(r) <=> r.show_embeddings
    /\ \A c \in Displayed :
          /\ EmbeddingsDrawn(c) <=> show_embeddings
          /\ ~show_embeddings => shows[c].out.reads \cap EmbeddingFields = {}

\* C8 (amended): embeddings are loaded and drawn only when show_embeddings is
\* true, and then only where the code gets that far: load_or_prepare_widgets
\* calls load_or_prepare_embeddings exactly when show_embeddings is true and
\* the cache directory exists; load_or_prepare calls it exactly when
\* show_embeddings is true and no earlier load raised; the expander is drawn
\* exactly when show_embeddings is true and show_column ran without an
\* exception; when show_embeddings is false the file reads none of fig_tree,
\* node_list, embeddings.
C8_EmbeddingsOnlyWhenRequestedAndReached ==
    /\ \A r \in WidgetRuns :
          EmbeddingsLoaded(r) <=> (r.show_embeddings /\ r.cache_dir_exists)
    /\ \A r \in PrepareRuns :
          EmbeddingsLoaded(r) <=>
             (r.show_embeddings /\ r.raised \in {NoRaise, "embeddings", "zipf"})
    /\ \A c \in Displayed :
          /\ EmbeddingsDrawn(c) <=>
                (/\ show_embeddings
                 /\ shows[c].out.show_column
                 /\ shows[c].out.raised = NoRaise)
          /\ ~show_embeddings => shows[c].out.reads \cap EmbeddingFields = {}

C8_Witness ==
    \E c \in Processed :
       /\ show_embeddings
       /\ EmbeddingsLoaded(loads[c])
       /\ EmbeddingsDrawn(c)
       /\ EmbeddingFields \subseteq shows[c].out.reads

\* C9: without a cache the invalid-e-mail message is shown exactly when the
\* e-mail fails validation and (it is not empty or the button was pressed);
\* the first render (empty e-mail, button not pressed) shows no message; an
\* invalid e-mail sends no POST and leaves the input and the button on screen.
C9_InvalidEmailMessage ==
    \A c \in Displayed :
       LET g == shows[c].given
           o == shows[c].out
           scr == Range(o.screen)
           invalid == ~validate_email(g.email).valid
       IN ~g.cache_exists =>
             /\ INVALID_MSG \in scr <=> (invalid /\ (g.email # "" \/ g.compute))
             /\ (g.email = "" /\ ~g.compute) => o.screen = <<"email_input", "compute_button">>
             /\ invalid => /\ o.posts = <<>>
                           /\ {"email_input", "compute_button"} \subseteq scr

C9_Witness ==
    \E c \in Displayed :
       /\ ~shows[c].given.cache_exists
       /\ shows[c].given.email = ""
       /\ shows[c].given.compute
       /\ INVALID_MSG \in Range(shows[c].out.screen)

\* What a column ends up showing.
Outcome(o) ==
    IF o.show_column THEN "statistics"
    ELSE IF o.screen = <<LATER_MSG>> THEN "check back later"
    ELSE "compute form"

OutcomeFor(cache_exists, complete) ==
    IF cache_exists THEN (IF complete THEN "statistics" ELSE "check back later")
    ELSE "compute form"

LoadCall(c) ==
    [fn |-> "load_or_prepare_widgets", dataset_args |-> sel[c].dataset_args,
     show_embeddings |-> show_embeddings, use_cache |-> TRUE]
DisplayCall(c) ==
    [fn |-> "display_or_compute_data_measures", dataset_args |-> sel[c].dataset_args,
     ds_configs |-> sel[c].ds_configs, show_embeddings |-> show_embeddings,
     column_id |-> c]
ComparisonOrder == <<LoadCall(" A"), DisplayCall(" A"), LoadCall(" B"), DisplayCall(" B")>>

\* C10: in comparison mode main loads A, displays A, loads B, displays B, in
\* that order, each with its own dataset_args and ds_configs, column ids " A"
\* and " B" and use_cache=True; what column B shows follows from B's
\* cache_exists and complete alone.
C10_ComparisonOrder ==
    (compare_mode /\ pc[1] \in {"load", "display", "done", "raised"}) =>
       /\ Len(mainTrace) <= 4
       /\ mainTrace = SubSeq(ComparisonOrder, 1, Len(mainTrace))
       /\ pc = <<"done", "main">> => mainTrace = ComparisonOrder
       /\ " B" \in Displayed =>
             /\ " A" \in Displayed
             /\ shows[" A"].out.raised = NoRaise
             /\ shows[" B"].given.cache_exists
                   = (DsCacheDir(sel[" B"].dataset_args) \in disk)
             /\ Outcome(shows[" B"].out)
                   = OutcomeFor(shows[" B"].given.cache_exists, shows[" B"].given.complete)
             /\ shows[" B"].out.column_id = " B"
             /\ shows[" A"].out.column_id = " A"

C10_Witness ==
    /\ compare_mode
    /\ pc = <<"done", "main">>
    /\ Outcome(shows[" A"].out) = "compute form"
    /\ Outcome(shows[" B"].out) = "statistics"
    /\ sel[" A"].dataset_args # sel[" B"].dataset_args

====
